---- MODULE Spec2Model ----
(***************************************************************************)
(* Model of the SLA prediction service's model store and scoring engine   *)
(* (src/app/model.py), driven by worker threads of the request executor   *)
(* (src/app/main.py).                                                      *)
(*                                                                         *)
(* Shared state is the three module globals of model.py, the persisted    *)
(* artifact at settings.model_path and the wall clock.  Every worker      *)
(* thread runs one call at a time; a call is cut into steps at the reads  *)
(* and writes of the shared state, because the code takes no lock.        *)
(***************************************************************************)
EXTENDS Integers, Sequences, FiniteSets, TLC

\* ------------------------------------------------------------------ bounds
NumThreads == 2
MaxCalls == 2
MaxTicks == 1
MaxDias == 11
MaxUmbral == 10
MaxBatch == 2

\* ------------------------------------------------------- program constants
model_reload_interval == 3600
MinTrainingSamples == 50
None == -1

Threads == 1..NumThreads

\* Between two readings of the clock no time passes, or exactly the reload
\* interval, or one second more: an age of exactly model_reload_interval and
\* an age just past it both occur.
ClockSteps == {0, model_reload_interval, model_reload_interval + 1}

\* ------------------------------------------------------------------ values
\* A fitted pipeline: id identifies the fit that produced it, kind tells the
\* bootstrap fit (dummy data) from a fit on real data, acc is the accuracy
\* entrenar_modelo returned with it (percent).
NoModel == [id |-> None, kind |-> "None", acc |-> None]
PriorModel == [id |-> 0, kind |-> "real", acc |-> 90]

\* The file at settings.model_path.
NoFile == [id |-> None, kind |-> "NoFile", acc |-> None]
Corrupt == [id |-> None, kind |-> "Corrupt", acc |-> None]

\* What get_datos_entrenamiento can return: n records; fit tells whether
\* fitting them succeeds, acc the holdout accuracy the fit then measures.
\* A failing query returns the empty list.
DataSets ==
    { [n |-> 0, fit |-> "ok", acc |-> 0],
      [n |-> MinTrainingSamples - 1, fit |-> "ok", acc |-> 0],
      [n |-> MinTrainingSamples, fit |-> "ok", acc |-> 75],
      [n |-> MinTrainingSamples, fit |-> "raise", acc |-> 0] }

\* The provider's answers with enough records for a fit on real data.
FullData == {d \in DataSets : d.n >= MinTrainingSamples}

NoData == [n |-> None, fit |-> "None", acc |-> None]

VARIABLES
    _modelo,            \* the published pipeline, or NoModel
    _modelo_timestamp,  \* when it was published, or None
    _modelo_accuracy,   \* the accuracy published with it, or None
    disk,               \* the persisted artifact
    clock,              \* the last reading of datetime.now().timestamp()
    ticks,              \* how often the clock was seen to advance
    calls,              \* how many calls were started
    th,                 \* per thread: the call it runs and its locals
    req,                \* the arguments of a scoring helper
    res                 \* what the scoring helpers returned for req

vars == <<_modelo, _modelo_timestamp, _modelo_accuracy, disk, clock, ticks,
          calls, th, req, res>>

store == <<_modelo, _modelo_timestamp, _modelo_accuracy>>

\* A thread that runs nothing.  id numbers the call; now, lm (the pipeline
\* the call loaded or fitted) and datos are the call's locals; log lists what
\* the call did so far.
Idle ==
    [op |-> "none", pc |-> "idle", id |-> 0, now |-> None, lm |-> NoModel,
     datos |-> NoData, log |-> <<>>]

Free(t) == th[t].pc \in {"idle", "done", "raised"}

\* Thread t moves to pc p, logging event e of the running call.
Goto(t, p, e) == [th EXCEPT ![t].pc = p, ![t].log = Append(@, e)]

\* Thread t's call ends (p is "done" or "raised"): its locals are dropped.
End(t, p) == [th EXCEPT ![t] = [Idle EXCEPT !.pc = p]]

\* datetime.now(): d seconds after the previous reading.
ReadClock(d) ==
    /\ d \in ClockSteps
    /\ d > 0 => ticks < MaxTicks
    /\ clock' = clock + d
    /\ ticks' = IF d > 0 THEN ticks + 1 ELSE ticks

\* ------------------------------------------------------------ scoring helpers
\* A probability p is held as the integer p * 10^5, so that the fifth
\* decimal, which round(p, 4) drops, is there.
ProbOne == 10 ^ 5

\* probabilidad >= x/10
AtLeastTenths(probabilidad, x) == probabilidad * 10 >= x * ProbOne

\* Mutant of calcular_nivel_riesgo: the band limits are exclusive.
calcular_nivel_riesgo_exclusive(probabilidad) ==
    IF probabilidad * 10 > 8 * ProbOne THEN "CRITICO"
    ELSE IF probabilidad * 10 > 6 * ProbOne THEN "ALTO"
    ELSE IF probabilidad * 10 > 4 * ProbOne THEN "MEDIO"
    ELSE "BAJO"

calcular_nivel_riesgo(probabilidad) ==
    IF AtLeastTenths(probabilidad, 8) THEN "CRITICO"
    ELSE IF AtLeastTenths(probabilidad, 6) THEN "ALTO"
    ELSE IF AtLeastTenths(probabilidad, 4) THEN "MEDIO"
    ELSE "BAJO"

\* porcentaje_tiempo >= pct, where porcentaje_tiempo is
\* (dias_transcurridos / dias_umbral) * 100 if dias_umbral > 0 else 0
PorcentajeAtLeast(dias_transcurridos, dias_umbral, pct) ==
    IF dias_umbral > 0
    THEN dias_transcurridos * 100 >= pct * dias_umbral
    ELSE 0 >= pct

\* Mutant of identificar_factores_riesgo: the second time test is an if, not
\* an elif.
identificar_factores_riesgo_if(dias_transcurridos, dias_umbral, probabilidad) ==
    (IF PorcentajeAtLeast(dias_transcurridos, dias_umbral, 90)
     THEN <<"Tiempo casi agotado (>90%)">> ELSE <<>>)
    \o (IF PorcentajeAtLeast(dias_transcurridos, dias_umbral, 70)
        THEN <<"Tiempo elevado (>70%)">> ELSE <<>>)
    \o (IF AtLeastTenths(probabilidad, 8)
        THEN <<"Alta probabilidad historica de incumplimiento">>
        ELSE <<>>)
    \o (IF dias_umbral <= 3 THEN <<"SLA con umbral muy corto">> ELSE <<>>)

\* The factor texts are the source's, without the accent of "historica".
identificar_factores_riesgo(dias_transcurridos, dias_umbral, probabilidad) ==
    (IF PorcentajeAtLeast(dias_transcurridos, dias_umbral, 90)
     THEN <<"Tiempo casi agotado (>90%)">>
     ELSE IF PorcentajeAtLeast(dias_transcurridos, dias_umbral, 70)
     THEN <<"Tiempo elevado (>70%)">>
     ELSE <<>>)
    \o (IF AtLeastTenths(probabilidad, 8)
        THEN <<"Alta probabilidad historica de incumplimiento">>
        ELSE <<>>)
    \o (IF dias_umbral <= 3 THEN <<"SLA con umbral muy corto">> ELSE <<>>)

\* The probabilities tried: the ends of [0, 1] and, around each band limit
\* x/10, the limit itself and its neighbours.
Probabilities ==
    {0, ProbOne}
    \cup UNION { {(x * ProbOne) \div 10 + k : k \in {-5, -4, -1, 0, 1}} : x \in {4, 6, 8} }

NoReq == [dias_transcurridos |-> None, dias_umbral |-> None, probabilidad |-> None]
NoRes == [nivel_riesgo |-> "None", factores |-> <<"None">>]

Requests ==
    [dias_transcurridos : 0..MaxDias, dias_umbral : 0..MaxUmbral,
     probabilidad : Probabilities]

\* ------------------------------------------------------------- entrenar_modelo
\* Mutant of entrenar_modelo: MinTrainingSamples records are still too few.
entrenar_modelo_inclusive(datos, id) ==
    IF datos.n <= MinTrainingSamples
    THEN [id |-> id, kind |-> "boot", acc |-> 0]
    ELSE [id |-> id, kind |-> "real", acc |-> datos.acc]

\* The fit on datos: the bootstrap pipeline with accuracy 0.0 below
\* MinTrainingSamples records, else the pipeline fitted on datos with its
\* holdout accuracy.  id is the identity of the new pipeline object.
entrenar_modelo(datos, id) ==
    IF datos.n < MinTrainingSamples
    THEN [id |-> id, kind |-> "boot", acc |-> 0]
    ELSE [id |-> id, kind |-> "real", acc |-> datos.acc]

\* Whether the fit on datos raises (train_test_split or pipeline.fit).
entrenar_raises(datos) ==
    datos.n >= MinTrainingSamples /\ datos.fit = "raise"

\* Mutants of TrainRaise: the failed reload drops the published pipeline, or
\* invalidates its timestamp.
TrainRaise_drops_model(t) ==
    /\ th' = End(t, "raised")
    /\ _modelo' = NoModel
    /\ UNCHANGED <<_modelo_timestamp, _modelo_accuracy>>

TrainRaise_drops_timestamp(t) ==
    /\ th' = End(t, "raised")
    /\ _modelo_timestamp' = None
    /\ UNCHANGED <<_modelo, _modelo_accuracy>>

\* A raising fit propagates out of the call; nothing was assigned.
TrainRaise(t) ==
    /\ th' = End(t, "raised")
    /\ UNCHANGED store

\* ------------------------------------------------------------------ get_modelo
\* Mutant of necesita_recargar: an age of exactly the interval is stale.
necesita_recargar_inclusive(now) ==
    \/ _modelo = NoModel
    \/ _modelo_timestamp = None
    \/ (now - _modelo_timestamp) >= model_reload_interval

necesita_recargar(now) ==
    \/ _modelo = NoModel
    \/ _modelo_timestamp = None
    \/ (now - _modelo_timestamp) > model_reload_interval

\* The executor hands a free worker (the lowest-numbered one: workers are
\* interchangeable) a call of predecir, whose first statement is
\* get_modelo(), which begins by reading the clock.
CallPredecir(t, d) ==
    /\ Free(t)
    /\ \A u \in Threads : u < t => ~Free(u)
    /\ calls < MaxCalls
    /\ calls' = calls + 1
    /\ ReadClock(d)
    /\ th' = [th EXCEPT ![t] =
                [Idle EXCEPT !.op = "predecir", !.id = calls + 1,
                             !.pc = "g_check", !.now = clock']]
    /\ UNCHANGED <<store, disk>>

GetCheck(t) ==
    /\ th[t].pc = "g_check"
    /\ th' = IF necesita_recargar(th[t].now)
             THEN Goto(t, "g_load", "stale")
             ELSE Goto(t, "g_ret", "fresh")
    /\ UNCHANGED <<store, disk, clock, ticks, calls>>

\* Mutant of GetLoad: the load's exception is not caught.
GetLoad_uncaught(t) ==
    /\ th[t].pc = "g_load"
    /\ th' = IF disk = NoFile THEN Goto(t, "g_train", "nofile")
             ELSE IF disk = Corrupt THEN End(t, "raised")
             ELSE [Goto(t, "g_load_pub", "loaded") EXCEPT ![t].lm = disk]
    /\ UNCHANGED <<store, disk, clock, ticks, calls>>

\* os.path.exists, then joblib.load: the load raises on an unreadable file
\* (caught, falls through to the fit), else yields the persisted pipeline.
GetLoad(t) ==
    /\ th[t].pc = "g_load"
    /\ th' = IF disk = NoFile THEN Goto(t, "g_train", "nofile")
             ELSE IF disk = Corrupt THEN Goto(t, "g_train", "load_failed")
             ELSE [Goto(t, "g_load_pub", "loaded") EXCEPT ![t].lm = disk]
    /\ UNCHANGED <<store, disk, clock, ticks, calls>>

GetLoadPub(t) ==
    /\ th[t].pc = "g_load_pub"
    /\ _modelo' = th[t].lm
    /\ th' = Goto(t, "g_load_ts", "w_modelo")
    /\ UNCHANGED <<_modelo_timestamp, _modelo_accuracy, disk, clock, ticks, calls>>

GetLoadTs(t) ==
    /\ th[t].pc = "g_load_ts"
    /\ _modelo_timestamp' = th[t].now
    /\ th' = Goto(t, "g_ret", "w_timestamp")
    /\ UNCHANGED <<_modelo, _modelo_accuracy, disk, clock, ticks, calls>>

\* entrenar_modelo(): reads the training data and fits.
GetTrain(t, d) ==
    /\ th[t].pc = "g_train"
    /\ IF entrenar_raises(d)
       THEN TrainRaise(t)
       ELSE /\ th' = [Goto(t, "g_pub_m", "trained")
                        EXCEPT ![t].lm = entrenar_modelo(d, th[t].id),
                               ![t].datos = d]
            /\ UNCHANGED store
    /\ UNCHANGED <<disk, clock, ticks, calls>>

GetPubModelo(t) ==
    /\ th[t].pc = "g_pub_m"
    /\ _modelo' = th[t].lm
    /\ th' = Goto(t, "g_pub_a", "w_modelo")
    /\ UNCHANGED <<_modelo_timestamp, _modelo_accuracy, disk, clock, ticks, calls>>

GetPubAccuracy(t) ==
    /\ th[t].pc = "g_pub_a"
    /\ _modelo_accuracy' = th[t].lm.acc
    /\ th' = Goto(t, "g_pub_ts", "w_accuracy")
    /\ UNCHANGED <<_modelo, _modelo_timestamp, disk, clock, ticks, calls>>

GetPubTs(t) ==
    /\ th[t].pc = "g_pub_ts"
    /\ _modelo_timestamp' = th[t].now
    /\ th' = Goto(t, "g_save", "w_timestamp")
    /\ UNCHANGED <<_modelo, _modelo_accuracy, disk, clock, ticks, calls>>

\* Mutant of SaveFailed: the dump's exception is not caught.
SaveFailed_uncaught(t, p, f) ==
    /\ f \in {disk, Corrupt}
    /\ disk' = f
    /\ th' = End(t, "raised")
    /\ UNCHANGED store

\* Mutant of SaveFailed: a failed dump withdraws the published pipeline.
SaveFailed_drops_model(t, p, f) ==
    /\ f \in {disk, Corrupt}
    /\ disk' = f
    /\ th' = Goto(t, p, "save_failed")
    /\ _modelo' = NoModel
    /\ UNCHANGED <<_modelo_timestamp, _modelo_accuracy>>

\* os.makedirs + joblib.dump(_modelo, path) inside try/except Exception:
\* the dump writes the published pipeline; a failure is only logged and
\* leaves the file as it was, or truncated.
SaveFailed(t, p, f) ==
    /\ f \in {disk, Corrupt}
    /\ disk' = f
    /\ th' = Goto(t, p, "save_failed")
    /\ UNCHANGED store

Save(t, p) ==
    \/ /\ disk' = _modelo
       /\ th' = Goto(t, p, "saved")
       /\ UNCHANGED store
    \/ \E f \in {disk, Corrupt} : SaveFailed(t, p, f)

GetSave(t) ==
    /\ th[t].pc = "g_save"
    /\ Save(t, "g_ret")
    /\ UNCHANGED <<clock, ticks, calls>>

\* What get_modelo returns: the global, read at the return statement.
get_modelo_result == _modelo

\* return _modelo, into predecir's local modelo; predecir scores its
\* input against that pipeline and returns.
GetReturn(t) ==
    /\ th[t].pc = "g_ret"
    /\ th' = End(t, "done")
    /\ UNCHANGED <<store, disk, clock, ticks, calls>>

\* ------------------------------------------------------ forzar_reentrenamiento
\* Mutant of CallForzar: the forced retrain goes through get_modelo's TTL
\* check.
CallForzar_checks_ttl(t) ==
    /\ Free(t)
    /\ \A u \in Threads : u < t => ~Free(u)
    /\ calls < MaxCalls
    /\ calls' = calls + 1
    /\ th' = [th EXCEPT ![t] =
                [Idle EXCEPT !.op = "forzar", !.id = calls + 1, !.pc = "g_check",
                             !.now = clock]]
    /\ UNCHANGED <<store, disk, clock, ticks>>

CallForzar(t) ==
    /\ Free(t)
    /\ \A u \in Threads : u < t => ~Free(u)
    /\ calls < MaxCalls
    /\ calls' = calls + 1
    /\ th' = [th EXCEPT ![t] =
                [Idle EXCEPT !.op = "forzar", !.id = calls + 1, !.pc = "f_train"]]
    /\ UNCHANGED <<store, disk, clock, ticks>>

\* Mutant of ForzarTrain: the fit itself stores the accuracy it measured.
ForzarTrain_publishes(t, d) ==
    /\ th[t].pc = "f_train"
    /\ IF entrenar_raises(d)
       THEN TrainRaise(t)
       ELSE /\ th' = [Goto(t, "f_pub_m", "trained")
                        EXCEPT ![t].lm = entrenar_modelo(d, th[t].id),
                               ![t].datos = d]
            /\ _modelo_accuracy' = entrenar_modelo(d, th[t].id).acc
            /\ UNCHANGED <<_modelo, _modelo_timestamp>>
    /\ UNCHANGED <<disk, clock, ticks, calls>>

\* get_datos_entrenamiento, then entrenar_modelo(datos).
ForzarTrain(t, d) ==
    /\ th[t].pc = "f_train"
    /\ IF entrenar_raises(d)
       THEN TrainRaise(t)
       ELSE /\ th' = [Goto(t, "f_pub_m", "trained")
                        EXCEPT ![t].lm = entrenar_modelo(d, th[t].id),
                               ![t].datos = d]
            /\ UNCHANGED store
    /\ UNCHANGED <<disk, clock, ticks, calls>>

ForzarPubModelo(t) ==
    /\ th[t].pc = "f_pub_m"
    /\ _modelo' = th[t].lm
    /\ th' = Goto(t, "f_pub_a", "w_modelo")
    /\ UNCHANGED <<_modelo_timestamp, _modelo_accuracy, disk, clock, ticks, calls>>

ForzarPubAccuracy(t) ==
    /\ th[t].pc = "f_pub_a"
    /\ _modelo_accuracy' = th[t].lm.acc
    /\ th' = Goto(t, "f_pub_ts", "w_accuracy")
    /\ UNCHANGED <<_modelo, _modelo_timestamp, disk, clock, ticks, calls>>

\* _modelo_timestamp = datetime.now().timestamp()
ForzarPubTs(t, d) ==
    /\ th[t].pc = "f_pub_ts"
    /\ ReadClock(d)
    /\ _modelo_timestamp' = clock'
    /\ th' = Goto(t, "f_save", "w_timestamp")
    /\ UNCHANGED <<_modelo, _modelo_accuracy, disk, calls>>

ForzarSave(t) ==
    /\ th[t].pc = "f_save"
    /\ Save(t, "f_ret")
    /\ UNCHANGED <<clock, ticks, calls>>

\* The call returns; only its effect on the shared state is kept here, the
\* dict it returns is built in ForzarReturnInfo.
ForzarReturn(t) ==
    /\ th[t].pc = "f_ret"
    /\ th' = End(t, "done")
    /\ UNCHANGED <<store, disk, clock, ticks, calls>>

\* modelo_esta_cargado(): _modelo is not None.
modelo_esta_cargado == _modelo # NoModel

\* The status and model_loaded fields of the /health response.
health_check ==
    [status |-> IF modelo_esta_cargado THEN "healthy" ELSE "degraded",
     model_loaded |-> modelo_esta_cargado]

\* get_modelo_info(): what it reports of the three globals (timestamp is
\* None while _modelo_timestamp is not set).
get_modelo_info ==
    [loaded |-> _modelo # NoModel,
     timestamp |-> _modelo_timestamp,
     accuracy |-> _modelo_accuracy]

\* ------------------------------------------------------------------ the system
Init ==
    /\ _modelo = NoModel
    /\ _modelo_timestamp = None
    /\ _modelo_accuracy = None
    /\ disk \in {NoFile, Corrupt, PriorModel}
    /\ clock = 1
    /\ ticks = 0
    /\ calls = 0
    /\ th = [t \in Threads |-> Idle]
    /\ req = NoReq
    /\ res = NoRes

\* A worker takes a new call.
Calls(t) ==
    \/ \E d \in ClockSteps : CallPredecir(t, d)
    \/ CallForzar(t)

\* A worker takes the next step of its call; the provider answers from data.
Step(t, data) ==
    \/ GetCheck(t)
    \/ GetLoad(t)
    \/ GetLoadPub(t)
    \/ GetLoadTs(t)
    \/ \E d \in data : GetTrain(t, d)
    \/ GetPubModelo(t)
    \/ GetPubAccuracy(t)
    \/ GetPubTs(t)
    \/ GetSave(t)
    \/ GetReturn(t)
    \/ \E d \in data : ForzarTrain(t, d)
    \/ ForzarPubModelo(t)
    \/ ForzarPubAccuracy(t)
    \/ \E d \in ClockSteps : ForzarPubTs(t, d)
    \/ ForzarSave(t)
    \/ ForzarReturn(t)

\* The executor's workers run their calls concurrently, the steps of the
\* calls interleaved.
Next ==
    /\ \E t \in Threads : Calls(t) \/ Step(t, FullData)
    /\ UNCHANGED <<req, res>>

Spec == Init /\ [][Next]_vars

\* One call at a time, each running to completion before the next starts;
\* the provider may also fail or return too few records.
NextSeq ==
    /\ \E t \in Threads :
        \/ (\A u \in Threads : Free(u)) /\ Calls(t)
        \/ Step(t, DataSets)
    /\ UNCHANGED <<req, res>>

SpecSeq == Init /\ [][NextSeq]_vars

\* The scoring helpers alone, on every request within the bounds.
InitScore ==
    /\ _modelo = NoModel
    /\ _modelo_timestamp = None
    /\ _modelo_accuracy = None
    /\ disk = NoFile
    /\ clock = 1
    /\ ticks = 0
    /\ calls = 0
    /\ th = [t \in Threads |-> Idle]
    /\ req \in Requests
    /\ res = NoRes

NivelRiesgo ==
    /\ res.nivel_riesgo = "None"
    /\ res' = [res EXCEPT !.nivel_riesgo = calcular_nivel_riesgo(req.probabilidad)]
    /\ UNCHANGED <<store, disk, clock, ticks, calls, th, req>>

FactoresRiesgo ==
    /\ res.factores = <<"None">>
    /\ res' = [res EXCEPT !.factores =
                 identificar_factores_riesgo(req.dias_transcurridos,
                                             req.dias_umbral, req.probabilidad)]
    /\ UNCHANGED <<store, disk, clock, ticks, calls, th, req>>

NextScore == NivelRiesgo \/ FactoresRiesgo

SpecScore == InitScore /\ [][NextScore]_vars

\* -------------------------------------------------------------- predecir_batch
\* The rows get_solicitudes_activas can hand to predecir_batch: the query
\* filters neither dias_umbral nor dias_transcurridos, so a row with a
\* threshold of 0 is among them.
Solicitudes ==
    { [id_solicitud |-> 1, dias_transcurridos |-> 9, dias_umbral |-> 10, id_rol |-> 1],
      [id_solicitud |-> 2, dias_transcurridos |-> 2, dias_umbral |-> 3, id_rol |-> 2],
      [id_solicitud |-> 3, dias_transcurridos |-> 5, dias_umbral |-> 0, id_rol |-> 1] }

\* The lists of at most MaxBatch rows, repeated rows included.
Batches == UNION { [1..n -> Solicitudes] : n \in 0..MaxBatch }

\* round(prob_float, 4): to the nearest multiple of 10^-4, a tie to the even
\* one.
round4(p) ==
    LET r == p % 10
        lo == p - r
    IN  IF r < 5 THEN lo
        ELSE IF r > 5 THEN lo + 10
        ELSE IF (lo \div 10) % 2 = 0 THEN lo ELSE lo + 10

\* Mutant of predict_proba: the output for a row depends on where the row
\* stands in the batch.
predict_proba_by_position(modelo, s, i) ==
    ((modelo.id + 2) * 19997 + s.id_rol * 20011 + s.dias_transcurridos * 1009
        + s.dias_umbral * 503 + i * 7) % (ProbOne + 1)

\* What predecir_batch takes from modelo.predict_proba(X) for row number i of
\* X, which is s: a fixed function of the fitted pipeline and the row's
\* features.
predict_proba(modelo, s, i) ==
    ((modelo.id + 2) * 19997 + s.id_rol * 20011 + s.dias_transcurridos * 1009
        + s.dias_umbral * 503) % (ProbOne + 1)

\* Mutant of resultado: the id is taken from the first row of the batch.
resultado_first_id(solicitudes, sol, prob_float) ==
    [id_solicitud |-> solicitudes[1].id_solicitud,
     probabilidad_incumplimiento |-> round4(prob_float),
     nivel_riesgo |-> calcular_nivel_riesgo(prob_float),
     factores_riesgo |->
        identificar_factores_riesgo(sol.dias_transcurridos, sol.dias_umbral,
                                    prob_float)]

\* Mutant of resultado: the level is derived from the rounded probability.
resultado_rounds_first(solicitudes, sol, prob_float) ==
    [id_solicitud |-> sol.id_solicitud,
     probabilidad_incumplimiento |-> round4(prob_float),
     nivel_riesgo |-> calcular_nivel_riesgo(round4(prob_float)),
     factores_riesgo |->
        identificar_factores_riesgo(sol.dias_transcurridos, sol.dias_umbral,
                                    prob_float)]

\* The dict predecir_batch appends for row sol with probability prob_float.
resultado(solicitudes, sol, prob_float) ==
    [id_solicitud |-> sol.id_solicitud,
     probabilidad_incumplimiento |-> round4(prob_float),
     nivel_riesgo |-> calcular_nivel_riesgo(prob_float),
     factores_riesgo |->
        identificar_factores_riesgo(sol.dias_transcurridos, sol.dias_umbral,
                                    prob_float)]

\* The locals of a predecir_batch call, besides those of its get_modelo call:
\* modelo is lm.
BatchLocals(solicitudes) == [solicitudes |-> solicitudes, probs |-> <<>>]

\* A worker takes a call of predecir_batch(solicitudes): the empty list is
\* answered at once, any other list goes on to get_modelo().
CallBatch(t, solicitudes, d) ==
    /\ Free(t)
    /\ \A u \in Threads : u < t => ~Free(u)
    /\ calls < MaxCalls
    /\ calls' = calls + 1
    /\ IF solicitudes = <<>>
       THEN /\ d = 0
            /\ th' = End(t, "done")
            /\ res' = <<>>
            /\ UNCHANGED <<clock, ticks>>
       ELSE /\ ReadClock(d)
            /\ th' = [th EXCEPT ![t] =
                        [Idle EXCEPT !.op = "batch", !.id = calls + 1,
                                     !.pc = "g_check", !.now = clock']
                        @@ BatchLocals(solicitudes)]
            /\ UNCHANGED res
    /\ UNCHANGED <<req, store, disk>>

\* modelo = get_modelo(): the value get_modelo returns is bound to the
\* call's local; get_modelo's own locals are gone.
BatchModelo(t) ==
    /\ th[t].pc = "g_ret"
    /\ th[t].op = "batch"
    /\ th' = [th EXCEPT ![t].pc = "b_predict", ![t].lm = get_modelo_result,
                        ![t].log = <<>>, ![t].now = None, ![t].datos = NoData]
    /\ UNCHANGED <<store, disk, clock, ticks, calls, req, res>>

\* Mutant of BatchPredict: every row is scored by the pipeline published
\* at that moment, not by the one the call obtained.
BatchPredict_global(t) ==
    /\ th[t].pc = "b_predict"
    /\ th' = [th EXCEPT ![t].pc = "b_ret",
                        ![t].probs =
                            [i \in DOMAIN th[t].solicitudes |->
                                predict_proba(_modelo, th[t].solicitudes[i], i)]]
    /\ UNCHANGED <<store, disk, clock, ticks, calls, req, res>>

\* probabilidades = modelo.predict_proba(X) and the choice of the column:
\* every row is scored by the call's local modelo.
BatchPredict(t) ==
    /\ th[t].pc = "b_predict"
    /\ th' = [th EXCEPT ![t].pc = "b_ret",
                        ![t].probs =
                            [i \in DOMAIN th[t].solicitudes |->
                                predict_proba(th[t].lm, th[t].solicitudes[i], i)]]
    /\ UNCHANGED <<store, disk, clock, ticks, calls, req, res>>

\* The loop over zip(solicitudes, probs) and return resultados.
BatchReturn(t) ==
    /\ th[t].pc = "b_ret"
    /\ res' = [i \in DOMAIN th[t].solicitudes |->
                  resultado(th[t].solicitudes, th[t].solicitudes[i],
                            th[t].probs[i])]
    /\ th' = End(t, "done")
    /\ UNCHANGED <<store, disk, clock, ticks, calls, req>>

\* The steps of get_modelo and forzar_reentrenamiento, which leave the
\* batch's input and output alone.
StoreStep(t) ==
    /\ \/ GetCheck(t)
       \/ GetLoad(t)
       \/ GetLoadPub(t)
       \/ GetLoadTs(t)
       \/ \E d \in FullData : GetTrain(t, d)
       \/ GetPubModelo(t)
       \/ GetPubAccuracy(t)
       \/ GetPubTs(t)
       \/ GetSave(t)
       \/ CallForzar(t)
       \/ \E d \in FullData : ForzarTrain(t, d)
       \/ ForzarPubModelo(t)
       \/ ForzarPubAccuracy(t)
       \/ \E d \in ClockSteps : ForzarPubTs(t, d)
       \/ ForzarSave(t)
       \/ ForzarReturn(t)
    /\ UNCHANGED <<req, res>>

\* What res holds before any predecir_batch call has returned.
NoBatchRes ==
    <<[id_solicitud |-> None, probabilidad_incumplimiento |-> None,
       nivel_riesgo |-> "None", factores_riesgo |-> <<>>]>>

\* The list the behaviour's predecir_batch calls are given is req; res is
\* what the last of them to return has returned.
InitBatch ==
    /\ _modelo = NoModel
    /\ _modelo_timestamp = None
    /\ _modelo_accuracy = None
    /\ disk \in {NoFile, Corrupt, PriorModel}
    /\ clock = 1
    /\ ticks = 0
    /\ calls = 0
    /\ th = [t \in Threads |-> Idle]
    /\ req \in Batches
    /\ res = NoBatchRes

\* Workers run predecir_batch and forzar_reentrenamiento calls concurrently.
NextBatch ==
    \E t \in Threads :
        \/ \E d \in ClockSteps : CallBatch(t, req, d)
        \/ BatchModelo(t)
        \/ BatchPredict(t)
        \/ BatchReturn(t)
        \/ StoreStep(t)

SpecBatch == InitBatch /\ [][NextBatch]_vars

\* ------------------------------------------------- the probability of a row
\* The probabilities a classifier can give class 1: the ends of [0, 1] and,
\* around each band limit, values that round(p, 4) moves and values it
\* leaves alone.
ProbaValues ==
    {0, ProbOne}
    \cup UNION { {(x * ProbOne) \div 10 + k : k \in {-10, -4, 0, 4}} : x \in {4, 6, 8} }

\* A fitted classifier scoring one row: classes are the labels it learned
\* (1 is 'breached'), p1 what it gives label 1 for the row.
Classifiers ==
    {c \in [classes : {{0, 1}, {0}, {1}}, p1 : ProbaValues] :
        /\ c.classes = {0} => c.p1 = 0
        /\ c.classes = {1} => c.p1 = ProbOne}

\* modelo.predict_proba(X)[0]: one column per learned class, in the order of
\* the labels.
predict_proba_row(c) ==
    IF c.classes = {0, 1} THEN <<ProbOne - c.p1, c.p1>>
    ELSE IF c.classes = {1} THEN <<c.p1>>
    ELSE <<ProbOne - c.p1>>

\* probabilidades[0][1] if probabilidades.shape[1] > 1 else
\* probabilidades[0][0], columns counted from 1 here.
extraer_probabilidad(probabilidades) ==
    IF Len(probabilidades) > 1 THEN probabilidades[2] ELSE probabilidades[1]

NoProba == [probabilidades |-> <<>>, probabilidad |-> None, resultado |-> NoBatchRes[1]]

\* req is the classifier and the row it is asked about.
InitProba ==
    /\ _modelo = NoModel
    /\ _modelo_timestamp = None
    /\ _modelo_accuracy = None
    /\ disk = NoFile
    /\ clock = 1
    /\ ticks = 0
    /\ calls = 0
    /\ th = [t \in Threads |-> Idle]
    /\ req \in [clf : Classifiers, sol : Solicitudes]
    /\ res = NoProba

PredictProba ==
    /\ res.probabilidades = <<>>
    /\ res' = [res EXCEPT !.probabilidades = predict_proba_row(req.clf)]
    /\ UNCHANGED <<store, disk, clock, ticks, calls, th, req>>

ExtraerProbabilidad ==
    /\ res.probabilidades # <<>>
    /\ res.probabilidad = None
    /\ res' = [res EXCEPT !.probabilidad = extraer_probabilidad(res.probabilidades)]
    /\ UNCHANGED <<store, disk, clock, ticks, calls, th, req>>

ConstruirResultado ==
    /\ res.probabilidad # None
    /\ res.resultado = NoBatchRes[1]
    /\ res' = [res EXCEPT !.resultado =
                  resultado(<<req.sol>>, req.sol, res.probabilidad)]
    /\ UNCHANGED <<store, disk, clock, ticks, calls, th, req>>

NextProba == PredictProba \/ ExtraerProbabilidad \/ ConstruirResultado

SpecProba == InitProba /\ [][NextProba]_vars

\* ------------------------------------------- what forzar_reentrenamiento returns
\* What res holds before any forzar_reentrenamiento call has returned.
NoForzarRes == [samples_used |-> None, accuracy |-> None, timestamp |-> None]

\* The return statement of forzar_reentrenamiento with the dict it builds:
\* len(datos), the global _modelo_accuracy as it is now, and a new reading
\* of datetime.now().
ForzarReturnInfo(t, d) ==
    /\ th[t].pc = "f_ret"
    /\ ReadClock(d)
    /\ res' = [samples_used |-> th[t].datos.n,
               accuracy |-> _modelo_accuracy,
               timestamp |-> clock']
    /\ th' = End(t, "done")
    /\ UNCHANGED <<store, disk, calls, req>>

InitForzar ==
    /\ _modelo = NoModel
    /\ _modelo_timestamp = None
    /\ _modelo_accuracy = None
    /\ disk \in {NoFile, Corrupt, PriorModel}
    /\ clock = 1
    /\ ticks = 0
    /\ calls = 0
    /\ th = [t \in Threads |-> Idle]
    /\ req = NoReq
    /\ res = NoForzarRes

\* The workers run predecir and forzar_reentrenamiento calls concurrently;
\* res is what the last forzar_reentrenamiento to return has returned.
NextForzar ==
    \E t \in Threads :
        \/ Calls(t) /\ UNCHANGED <<req, res>>
        \/ /\ \/ GetCheck(t)
              \/ GetLoad(t)
              \/ GetLoadPub(t)
              \/ GetLoadTs(t)
              \/ \E d \in DataSets : GetTrain(t, d)
              \/ GetPubModelo(t)
              \/ GetPubAccuracy(t)
              \/ GetPubTs(t)
              \/ GetSave(t)
              \/ GetReturn(t)
              \/ \E d \in DataSets : ForzarTrain(t, d)
              \/ ForzarPubModelo(t)
              \/ ForzarPubAccuracy(t)
              \/ \E d \in ClockSteps : ForzarPubTs(t, d)
              \/ ForzarSave(t)
           /\ UNCHANGED <<req, res>>
        \/ \E d \in ClockSteps : ForzarReturnInfo(t, d)

SpecForzar == InitForzar /\ [][NextForzar]_vars

\* ====================================================================== claims
Range(q) == {q[i] : i \in DOMAIN q}
Last(q) == q[Len(q)]
\* From its event number k + 1 on, log lists the events of a retrain in
\* their order: the fit, the three writes, then the outcome of the save.
RetrainLog == <<"trained", "w_modelo", "w_accuracy", "w_timestamp">>
IsRetrainLog(log, k) ==
    \A i \in DOMAIN log :
        /\ (k < i /\ i <= k + 4) => log[i] = RetrainLog[i - k]
        /\ i = k + 5 => log[i] \in {"saved", "save_failed"}
        /\ i <= k + 5
Writes == {"w_modelo", "w_accuracy", "w_timestamp"}

\* Thread t takes a step.
Moves(t) == th'[t] # th[t]

\* ---------------------------------------------------------------------- C1
\* get_modelo callers that found the store stale and are running the fit or
\* publishing its result.
RetrainPcs == {"g_train", "g_pub_m", "g_pub_a", "g_pub_ts"}
Retraining == {t \in Threads : th[t].pc \in RetrainPcs}

\* C1: single-flight reload.  At most one caller of get_modelo runs the
\* Trainer for a staleness episode: no two callers are at the same time
\* between deciding to retrain and publishing the retrained pipeline.
C1_SingleFlight == Cardinality(Retraining) <= 1

\* ---------------------------------------------------------------------- C2
\* C2: whenever get_modelo reaches its return statement, under any
\* interleaving with other get_modelo and forzar_reentrenamiento calls, the
\* value it returns is a pipeline, never None.
C2_NeverNoModel ==
    \A t \in Threads : th[t].pc = "g_ret" => get_modelo_result # NoModel

\* get_modelo is about to return while a forced retrain is half published.
C2_Witness ==
    \E t, u \in Threads :
        /\ th[t].pc = "g_ret"
        /\ th[u].op = "forzar" /\ th[u].pc = "f_pub_a"

\* ---------------------------------------------------------------------- C3
\* C3: once a pipeline has been published, no step of a predecir call ends
\* the call with an exception, whatever fails in a reload that has become
\* due.
C3_PredictionsNeverFail ==
    [][\A t \in Threads :
          (th[t].op = "predecir" /\ _modelo # NoModel /\ _modelo_timestamp # None)
              => th'[t].pc # "raised"]_vars

\* ---------------------------------------------------------------------- C4
\* C4: the step in which the fit raises ends the call with the exception
\* and leaves _modelo, _modelo_timestamp and _modelo_accuracy as they were,
\* and the call wrote none of them before, in get_modelo as in
\* forzar_reentrenamiento.
C4_FailedTrainingKeepsStore ==
    [][\A t \in Threads :
          (th[t].pc \in {"g_train", "f_train"} /\ th'[t].pc = "raised")
              => /\ store' = store
                 /\ Range(th[t].log) \cap Writes = {}]_vars

\* A reload that was due has failed, and the pipeline published before it
\* is still in place.
C4_Witness ==
    \E t \in Threads :
        /\ th[t].pc = "raised"
        /\ _modelo # NoModel
        /\ _modelo_timestamp # None
        /\ clock - _modelo_timestamp > model_reload_interval

\* ---------------------------------------------------------------------- C5
\* No pipeline has been published yet: none is stored, or the one stored
\* has no timestamp yet (a publication is complete with its timestamp).
NothingPublished == _modelo = NoModel \/ _modelo_timestamp = None

\* C5: get_modelo goes on to reload exactly when no pipeline is published
\* or the published one is older than model_reload_interval (strictly);
\* otherwise, an age of exactly the interval included, it goes straight to
\* its return statement, and neither the check nor the return loads, fits,
\* saves or changes the store.
C5_ReloadPolicy ==
    [][\A t \in Threads :
          /\ (th[t].pc = "g_check" /\ Moves(t))
              => /\ th'[t].pc = "g_load"
                      <=> (\/ NothingPublished
                           \/ th[t].now - _modelo_timestamp > model_reload_interval)
                 /\ th'[t].pc \in {"g_load", "g_ret"}
                 /\ th'[t].pc = "g_ret" => th'[t].log = <<"fresh">>
                 /\ store' = store /\ disk' = disk
          /\ (th[t].pc = "g_ret" /\ th[t].log = <<"fresh">> /\ Moves(t))
              => /\ th'[t].pc = "done"
                 /\ store' = store /\ disk' = disk]_vars

\* The published pipeline is exactly model_reload_interval old and
\* get_modelo returns it without a reload.
C5_Witness ==
    \E t \in Threads :
        /\ th[t].pc = "g_ret"
        /\ th[t].log = <<"fresh">>
        /\ th[t].now - _modelo_timestamp = model_reload_interval

\* ---------------------------------------------------------------------- C6
\* What a forzar_reentrenamiento call has done when it is at pc.
ForzarPath ==
    [f_train |-> 0, f_pub_m |-> 1, f_pub_a |-> 2, f_pub_ts |-> 3, f_save |-> 4,
     f_ret |-> 5]

\* C6: a forzar_reentrenamiento call never checks the TTL and never loads
\* the persisted artifact: its first step is the fit, and when the fit
\* returns the call publishes the pipeline and the accuracy it returned and
\* a new timestamp, then attempts the save, whatever the age of the
\* published pipeline and whatever is persisted.
C6_ForzarAlwaysRetrains ==
    /\ [](\A t \in Threads :
            th[t].op = "forzar"
                => /\ th[t].pc \in DOMAIN ForzarPath
                   /\ Len(th[t].log) = ForzarPath[th[t].pc]
                   /\ IsRetrainLog(th[t].log, 0)
                   /\ th[t].pc # "f_train" => th[t].lm.id = th[t].id)
    /\ [][\A t \in Threads :
            /\ (th[t].pc = "f_pub_m" /\ Moves(t)) => _modelo' = th[t].lm
            /\ (th[t].pc = "f_pub_a" /\ Moves(t)) => _modelo_accuracy' = th[t].lm.acc
            /\ (th[t].pc = "f_pub_ts" /\ Moves(t)) => _modelo_timestamp' = clock'
            /\ (th[t].pc = "f_save" /\ Moves(t))
                  => (disk' = _modelo \/ Last(th'[t].log) = "save_failed")]_vars

\* A forced retrain has fitted a new pipeline although the published one
\* was published this very second and is the persisted one.
C6_Witness ==
    \E t \in Threads :
        /\ th[t].op = "forzar" /\ th[t].pc = "f_pub_m"
        /\ _modelo # NoModel
        /\ _modelo_timestamp = clock
        /\ disk = _modelo

\* ---------------------------------------------------------------------- C7
\* What a reloading get_modelo call has done when it is at pc, the first
\* event (stale) and the second (nofile or load_failed) left out.
TrainPath ==
    [g_train |-> 0, g_pub_m |-> 1, g_pub_a |-> 2, g_pub_ts |-> 3, g_save |-> 4,
     g_ret |-> 5]

\* C7: a load that fails is caught: the step leaves the store untouched,
\* adopts nothing and leads to the fit, and from there the call does what a
\* call that found no file does: fit, publish pipeline, accuracy and
\* timestamp, attempt the save, return.
C7_CorruptIsNothingPersisted ==
    /\ [][\A t \in Threads :
            (th[t].pc = "g_load" /\ disk = Corrupt /\ Moves(t))
                => /\ th'[t].pc = "g_train"
                   /\ th'[t].lm = NoModel
                   /\ store' = store]_vars
    /\ [](\A t \in Threads :
            (Len(th[t].log) >= 2 /\ th[t].log[2] \in {"nofile", "load_failed"})
                => /\ th[t].pc \in DOMAIN TrainPath
                   /\ Len(th[t].log) = 2 + TrainPath[th[t].pc]
                   /\ IsRetrainLog(th[t].log, 2)
                   /\ th[t].pc \notin {"g_train", "g_ret"}
                          => th[t].lm.id = th[t].id)

\* After a failed load the call has fitted, published and saved a new
\* pipeline and is about to return it.
C7_Witness ==
    \E t \in Threads :
        /\ th[t].pc = "g_ret"
        /\ th[t].log = <<"stale", "load_failed">> \o RetrainLog \o <<"saved">>
        /\ _modelo.id = th[t].id
        /\ disk = _modelo

\* ---------------------------------------------------------------------- C8
\* C8 (calls one at a time): whatever the outcome of the save, the call goes
\* on to its return statement with the store untouched; after a failed save
\* the store holds the pipeline the call fitted, its accuracy and its
\* timestamp, the call returns normally, and get_modelo's staleness check
\* passes for every reading of the clock up to model_reload_interval later,
\* so that such a call returns that pipeline.
C8_SaveFailureKeepsModel ==
    /\ [][\A t \in Threads :
            /\ (th[t].pc \in {"g_save", "f_save"} /\ Moves(t))
                  => /\ th'[t].pc = (IF th[t].pc = "g_save" THEN "g_ret" ELSE "f_ret")
                     /\ store' = store
            /\ (th[t].pc \in {"g_ret", "f_ret"} /\ Moves(t))
                  => th'[t].pc = "done"]_vars
    /\ [](\A t \in Threads :
            (th[t].log # <<>> /\ Last(th[t].log) = "save_failed")
                => /\ _modelo = th[t].lm
                   /\ _modelo.id = th[t].id
                   /\ _modelo_accuracy = th[t].lm.acc
                   /\ _modelo_timestamp = (IF th[t].op = "forzar" THEN clock
                                                                  ELSE th[t].now)
                   /\ ~necesita_recargar(_modelo_timestamp + model_reload_interval)
                   /\ get_modelo_result = th[t].lm)

\* A later get_modelo call, within the TTL, is about to return the pipeline
\* of the first call, which is not the persisted one.
C8_Witness ==
    \E t \in Threads :
        /\ th[t].pc = "g_ret"
        /\ th[t].log = <<"fresh">>
        /\ th[t].id = 2
        /\ _modelo.id = 1
        /\ disk # _modelo

\* ---------------------------------------------------------------------- C9
\* probabilidad >= pct/100
AtLeastPct(probabilidad, pct) == probabilidad * 100 >= pct * ProbOne

\* C9: for every probability in [0, 1] calcular_nivel_riesgo returns one of
\* the four levels: CRITICO from 0.80, ALTO from 0.60 to below 0.80, MEDIO
\* from 0.40 to below 0.60, BAJO below 0.40.
C9_RiskBands ==
    res.nivel_riesgo # "None" =>
        LET p == req.probabilidad
            n == res.nivel_riesgo
        IN  /\ n \in {"CRITICO", "ALTO", "MEDIO", "BAJO"}
            /\ n = "CRITICO" <=> AtLeastPct(p, 80)
            /\ n = "ALTO" <=> (AtLeastPct(p, 60) /\ ~AtLeastPct(p, 80))
            /\ n = "MEDIO" <=> (AtLeastPct(p, 40) /\ ~AtLeastPct(p, 60))
            /\ n = "BAJO" <=> ~AtLeastPct(p, 40)

\* The lower limit of a band belongs to it: 0.6 is ALTO.
C9_Witness ==
    /\ res.nivel_riesgo = "ALTO"
    /\ req.probabilidad * 10 = 6 * ProbOne

\* --------------------------------------------------------------------- C10
FactorOrder ==
    <<"Tiempo casi agotado (>90%)", "Tiempo elevado (>70%)",
      "Alta probabilidad historica de incumplimiento",
      "SLA con umbral muy corto">>

InFactores(f) == f \in Range(res.factores)

\* C10: for a threshold above 0 the factors returned are, in the fixed
\* order and each at most once: 'almost exhausted' iff 90% or more of the
\* threshold has elapsed, 'elevated' iff 70% or more and less than 90%,
\* 'high probability' iff the probability is 0.80 or more, 'short window'
\* iff the threshold is 3 days or less; nothing else.
C10_Factors ==
    (res.factores # <<"None">> /\ req.dias_umbral > 0) =>
        LET d == req.dias_transcurridos
            u == req.dias_umbral
        IN  /\ res.factores = SelectSeq(FactorOrder, InFactores)
            /\ InFactores(FactorOrder[1]) <=> d * 10 >= 9 * u
            /\ InFactores(FactorOrder[2]) <=> (d * 10 >= 7 * u /\ d * 10 < 9 * u)
            /\ InFactores(FactorOrder[3]) <=> AtLeastPct(req.probabilidad, 80)
            /\ InFactores(FactorOrder[4]) <=> u <= 3

\* 9 of 10 days elapsed at probability 0.8: almost exhausted and high
\* probability, in that order.
C10_Witness ==
    /\ req.dias_transcurridos = 9 /\ req.dias_umbral = 10
    /\ res.factores = <<FactorOrder[1], FactorOrder[3]>>

\* --------------------------------------------------------------------- C11
\* A row of a running predecir_batch call.
BatchRows(t) == {th[t].solicitudes[i] : i \in DOMAIN th[t].solicitudes}

\* C11: no row with dias_umbral <= 0 or dias_transcurridos < 0 gets past
\* the entry of predecir_batch: a call that is on its way to get_modelo and
\* predict_proba holds valid rows only, and no result is returned for an
\* invalid row.
C11_InvalidRejected ==
    /\ \A t \in Threads :
          th[t].op = "batch"
              => \A s \in BatchRows(t) :
                    s.dias_umbral > 0 /\ s.dias_transcurridos >= 0
    /\ res # NoBatchRes
          => \A i \in DOMAIN res :
                req[i].dias_umbral > 0 /\ req[i].dias_transcurridos >= 0

\* --------------------------------------------------------------------- C12
\* The identities a pipeline can have: the persisted one's and one per call.
PipelineIds == 0..MaxCalls

\* The list predecir_batch returns for solicitudes when it scores with the
\* pipeline of identity k.
BatchOutput(solicitudes, k) ==
    [i \in DOMAIN solicitudes |->
        resultado(solicitudes, solicitudes[i],
                  predict_proba([id |-> k], solicitudes[i], i))]

\* C12: what predecir_batch returns has one result per row of its input, in
\* the input's order: result i carries the id of row i and the probability
\* (rounded), level and factors of row i's features under one pipeline; the
\* call on the empty list returns the empty list in one step that reads no
\* clock and leaves store and file alone.
C12_OneResultPerRow ==
    /\ [](res # NoBatchRes =>
            /\ Len(res) = Len(req)
            /\ \A i \in DOMAIN req : res[i].id_solicitud = req[i].id_solicitud
            /\ \E k \in PipelineIds : res = BatchOutput(req, k))
    /\ [][(req = <<>> /\ calls' # calls /\ (\A t \in Threads : th'[t].op # "forzar" \/ th[t].op = "forzar"))
            => /\ res' = <<>>
               /\ \A t \in Threads : th'[t].op # "batch"
               /\ store' = store /\ disk' = disk /\ clock' = clock]_vars

\* A call on two different rows has returned.
C12_Witness ==
    /\ res # NoBatchRes
    /\ Len(res) = 2
    /\ res[1].id_solicitud # res[2].id_solicitud

\* --------------------------------------------------------------------- C13
\* The feature triple of a row.
Triple(s) == <<s.dias_transcurridos, s.dias_umbral, s.id_rol>>

\* C13: within one predecir_batch call rows with identical features get
\* identical probabilities, and in what is returned identical (rounded)
\* probabilities, levels and factors, whatever is published while the call
\* runs.
C13_IdenticalRowsIdenticalProbs ==
    /\ \A t \in Threads :
          th[t].pc = "b_ret"
              => \A i, j \in DOMAIN th[t].solicitudes :
                    Triple(th[t].solicitudes[i]) = Triple(th[t].solicitudes[j])
                        => th[t].probs[i] = th[t].probs[j]
    /\ res # NoBatchRes
          => \A i, j \in DOMAIN res :
                Triple(req[i]) = Triple(req[j])
                    => /\ res[i].probabilidad_incumplimiento
                            = res[j].probabilidad_incumplimiento
                       /\ res[i].nivel_riesgo = res[j].nivel_riesgo
                       /\ res[i].factores_riesgo = res[j].factores_riesgo

\* A call has scored two identical rows, and a pipeline other than the one
\* it scored with has been published meanwhile.
C13_Witness ==
    \E t \in Threads :
        /\ th[t].pc = "b_ret"
        /\ Len(th[t].solicitudes) = 2
        /\ th[t].solicitudes[1] = th[t].solicitudes[2]
        /\ _modelo.id # th[t].lm.id

\* --------------------------------------------------------------------- C14
\* The pcs at which a call has published the pipeline and the accuracy of
\* its fit.
PublishedPcs == {"g_pub_ts", "g_save", "f_pub_ts", "f_save", "f_ret"}

\* C14 (calls one at a time): a fit on fewer than MinTrainingSamples records
\* never raises and returns the bootstrap pipeline with accuracy 0, a fit on
\* MinTrainingSamples records returns a pipeline fitted on them; the call
\* publishes the bootstrap pipeline with accuracy 0, and a predecir call
\* that gets the bootstrap pipeline from get_modelo returns normally.
C14_BootstrapBelowFifty ==
    /\ [](/\ \A d \in DataSets : d.n < MinTrainingSamples => ~entrenar_raises(d)
          /\ \A t \in Threads :
                th[t].datos # NoData
                    => /\ th[t].datos.n < MinTrainingSamples
                            => th[t].lm = [id |-> th[t].id, kind |-> "boot", acc |-> 0]
                       /\ th[t].datos.n >= MinTrainingSamples
                            => th[t].lm.kind = "real"
                       /\ (th[t].datos.n < MinTrainingSamples
                             /\ th[t].pc \in PublishedPcs)
                            => /\ _modelo = th[t].lm
                               /\ _modelo_accuracy = 0)
    /\ [][\A t \in Threads :
            (th[t].op = "predecir" /\ th[t].pc = "g_ret"
               /\ get_modelo_result.kind = "boot" /\ Moves(t))
                => th'[t].pc = "done"]_vars

\* The provider returned nothing, the bootstrap pipeline was published with
\* accuracy 0, and a later predecir call is about to return with it.
C14_Witness ==
    \E t \in Threads :
        /\ th[t].op = "predecir" /\ th[t].pc = "g_ret"
        /\ th[t].log = <<"fresh">>
        /\ _modelo.kind = "boot"
        /\ _modelo.id # th[t].id
        /\ _modelo_accuracy = 0

\* --------------------------------------------------------------------- C15
\* C15 (calls one at a time): a reload that is due while a pipeline is in
\* memory does not read the persisted artifact back: its step after the
\* staleness check leads to the fit and adopts nothing.
C15_LoadOnlyWhenEmpty ==
    [][\A t \in Threads :
          (th[t].pc = "g_load" /\ _modelo # NoModel /\ Moves(t))
              => /\ th'[t].pc = "g_train"
                 /\ th'[t].lm = NoModel]_vars

\* --------------------------------------------------------------------- C16
\* What the classifier gives the 'breached' class for the row.
BreachProbability(c) == IF 1 \in c.classes THEN c.p1 ELSE 0

\* C16: the probability taken from the classifier's output is the one it
\* gives the 'breached' class, whatever classes it learned.
C16_BreachClassProbability ==
    res.probabilidad # None => res.probabilidad = BreachProbability(req.clf)

\* --------------------------------------------------------------------- C17
\* The pipelines held anywhere: published, persisted, or local to a call.
Held == {_modelo, disk} \cup {th[t].lm : t \in Threads}

\* The pcs of a predecir_batch call that has bound its local modelo.
BoundPcs == {"b_predict", "b_ret"}

\* C17: a pipeline is never changed once fitted (whoever holds the pipeline
\* of one fit holds the same pipeline); the local modelo of a predecir_batch
\* call is the pipeline get_modelo returned and stays that pipeline whatever
\* is published afterwards, and all the call's probabilities come from it.
C17_ScoresWithCapturedModel ==
    /\ [](/\ \A a, b \in Held : (a.id = b.id /\ a.id >= 0) => a = b
          /\ \A t \in Threads :
                /\ th[t].pc \in BoundPcs => th[t].lm.id >= 0
                /\ th[t].pc = "b_ret"
                     => th[t].probs =
                            [i \in DOMAIN th[t].solicitudes |->
                                predict_proba(th[t].lm, th[t].solicitudes[i], i)])
    /\ [][\A t \in Threads :
            /\ (th[t].op = "batch" /\ th[t].pc = "g_ret" /\ Moves(t))
                  => th'[t].lm = get_modelo_result
            /\ (th[t].pc \in BoundPcs /\ th'[t].pc \in BoundPcs)
                  => th'[t].lm = th[t].lm]_vars

\* A call has scored two different rows with the pipeline it obtained, and
\* the published pipeline is by now the one of a later fit.
C17_Witness ==
    \E t \in Threads :
        /\ th[t].pc = "b_ret"
        /\ Len(th[t].probs) = 2
        /\ th[t].solicitudes[1] # th[t].solicitudes[2]
        /\ _modelo.id > th[t].lm.id

\* --------------------------------------------------------------------- C18
\* C18: while no call is in progress, the accuracy and the timestamp
\* get_modelo_info reports are those of the pipeline get_modelo would
\* return: a timestamp is there, and the accuracy is the one that pipeline
\* was fitted with, or none where none is known, never another pipeline's.
C18_InfoMatchesModel ==
    ((\A t \in Threads : Free(t)) /\ get_modelo_info.loaded)
        => /\ get_modelo_info.timestamp # None
           /\ get_modelo_info.accuracy \in {None, get_modelo_result.acc}

\* --------------------------------------------------------------------- C19
\* The pcs at which a call runs entrenar_modelo, and those at which it
\* assigns one of the three globals.
FitPcs == {"g_train", "f_train"}
WritePcs ==
    {"g_load_pub", "g_load_ts", "g_pub_m", "g_pub_a", "g_pub_ts",
     "f_pub_m", "f_pub_a", "f_pub_ts"}

\* C19: the step in which entrenar_modelo runs, whether it returns the
\* bootstrap pipeline or a pipeline fitted on the data or raises, leaves
\* _modelo, _modelo_timestamp, _modelo_accuracy and the file as they were;
\* the three globals change only in an assignment of get_modelo or
\* forzar_reentrenamiento.
C19_TrainerWritesNothing ==
    [][/\ \A t \in Threads :
            (th[t].pc \in FitPcs /\ Moves(t))
                => /\ store' = store
                   /\ disk' = disk
                   /\ th'[t].pc \in {"g_pub_m", "f_pub_m", "raised"}
       /\ store' # store
            => \E t \in Threads : th[t].pc \in WritePcs /\ Moves(t)]_vars

\* A fit has returned the bootstrap pipeline while the pipeline of an
\* earlier fit, its accuracy and its timestamp are still what is published.
C19_Witness ==
    \E t \in Threads :
        /\ th[t].pc \in {"g_pub_m", "f_pub_m"}
        /\ th[t].lm.kind = "boot"
        /\ _modelo.id >= 0 /\ _modelo.id < th[t].lm.id
        /\ _modelo_accuracy = _modelo.acc
        /\ _modelo_timestamp # None

\* --------------------------------------------------------------------- C20
\* A result has been built for the row.
ResultBuilt == res.resultado # NoBatchRes[1]
BandLimits == {(x * ProbOne) \div 10 : x \in {4, 6, 8}}

\* C20 as stated: the reported level is calcular_nivel_riesgo of the
\* reported, rounded probability of the same result.
C20_LevelOfReportedProbability ==
    ResultBuilt
        => res.resultado.nivel_riesgo
             = calcular_nivel_riesgo(res.resultado.probabilidad_incumplimiento)

\* C20: the reported probability is the row's probability rounded to four
\* decimals and the reported level is calcular_nivel_riesgo of the
\* probability before rounding; the level differs from the band of the
\* reported probability exactly when rounding lifts the probability onto or
\* over a band limit it was below.
C20_LevelOfUnroundedProbability ==
    ResultBuilt
        => /\ res.resultado.probabilidad_incumplimiento = round4(res.probabilidad)
           /\ res.resultado.nivel_riesgo = calcular_nivel_riesgo(res.probabilidad)
           /\ (res.resultado.nivel_riesgo
                 # calcular_nivel_riesgo(res.resultado.probabilidad_incumplimiento))
              <=> \E l \in BandLimits :
                      /\ res.probabilidad < l
                      /\ l <= res.resultado.probabilidad_incumplimiento

\* A probability of 0.79996 is reported as 0.8 with the level ALTO.
C20_Witness ==
    /\ ResultBuilt
    /\ res.probabilidad = 79996
    /\ res.resultado.probabilidad_incumplimiento = 80000
    /\ res.resultado.nivel_riesgo = "ALTO"

\* --------------------------------------------------------------------- C21
\* C21: with a clock that never goes back, every write to _modelo_timestamp,
\* by get_modelo or by forzar_reentrenamiento under any interleaving of
\* their calls, stores a value greater than or equal to the one it replaces.
C21_TimestampNeverDecreases ==
    [][(_modelo_timestamp # None /\ _modelo_timestamp' # _modelo_timestamp)
          => _modelo_timestamp' >= _modelo_timestamp]_vars

\* --------------------------------------------------------------------- C22
\* Thread t returns from forzar_reentrenamiento in this step.
ForzarReturns(t) == th[t].pc = "f_ret" /\ th'[t].pc = "done"

\* No thread but t has run or is running a call.
OnlyCaller(t) == \A u \in Threads \ {t} : th[u].pc = "idle"

\* C22: what forzar_reentrenamiento returns describes the pipeline this
\* call fitted and published: the number of records it was fitted on, its
\* accuracy, also when other calls run concurrently, and the timestamp
\* stored for it (compared here only when no other call ever ran, so that
\* the stored timestamp is the one this call wrote).
C22_ReturnDescribesOwnModel ==
    [][\A t \in Threads :
          ForzarReturns(t)
              => /\ res'.samples_used = th[t].datos.n
                 /\ res'.accuracy = th[t].lm.acc
                 /\ (OnlyCaller(t) /\ _modelo = th[t].lm)
                        => res'.timestamp = _modelo_timestamp]_vars

\* --------------------------------------------------------------------- C23
\* The pcs at which a call assigns _modelo.
PublishModelPcs == {"g_load_pub", "g_pub_m", "f_pub_m"}

\* C23: modelo_esta_cargado() is false exactly until the first load or fit
\* assigns _modelo, and from then on it stays true whatever reloads, forced
\* retrains and failing loads, fits and saves follow; /health reports
\* 'healthy' exactly when it is true.
C23_ReadinessMonotonic ==
    /\ [][/\ modelo_esta_cargado => modelo_esta_cargado'
          /\ \A t \in Threads :
                (th[t].pc \in PublishModelPcs /\ Moves(t)) => modelo_esta_cargado'
          /\ (~modelo_esta_cargado /\ modelo_esta_cargado')
                => \E t \in Threads : th[t].pc \in PublishModelPcs /\ Moves(t)]_vars
    /\ [](health_check.status = "healthy" <=> modelo_esta_cargado)
    /\ [](health_check.status \in {"healthy", "degraded"})

\* The service is ready after a call whose save failed and left an
\* unreadable file, and a later call's fit has raised.
C23_Witness ==
    /\ modelo_esta_cargado
    /\ health_check.status = "healthy"
    /\ disk = Corrupt
    /\ calls = 2
    /\ _modelo.id = 1
    /\ \E t \in Threads : th[t].pc = "raised"

====
